---- MODULE Spec2Model ----
(***************************************************************************)
(* A model of pkg/backend/display/detailedDiff.go: the property-path       *)
(* parser (parseDiffPath), the one-step property lookup (getProperty),     *)
(* the recursive diff insertion (addDiff) and the driver that folds a      *)
(* step's detailed diff into one ObjectDiff (translateDetailedDiff).       *)
(*                                                                         *)
(* A Go string is a sequence of one-character strings; Go's 0-based index  *)
(* i is position i+1 of the sequence (operator At).  A Go map is a         *)
(* function with a finite domain; a nil pointer is the record NilPtr.      *)
(***************************************************************************)
EXTENDS Integers, Sequences, FiniteSets, TLC

(***************************************************************************)
(* Bounds of the model.                                                    *)
(***************************************************************************)
\* Longest raw path string handed to the parser.
MaxLen == 4
\* Most accessors in a generated well-formed path string.
MaxAccessors == 2
\* Most records in a step's DetailedDiff map.
MaxRecords == 2
\* Longest descent of lookups in the lookup specification.
MaxDepth == 2

(***************************************************************************)
(* resource.PropertyValue: a tagged union.  The zero value                 *)
(* PropertyValue{} is the null value.                                      *)
(***************************************************************************)
Null == [t |-> "null"]
Num(n) == [t |-> "num", n |-> n]
Obj(m) == [t |-> "obj", m |-> m]
Arr(a) == [t |-> "arr", a |-> a]
Computed(e) == [t |-> "computed", e |-> e]
Output(e) == [t |-> "output", e |-> e]
Secret(e) == [t |-> "secret", e |-> e]

IsNull(v) == v.t = "null"
IsArray(v) == v.t = "arr"
IsObject(v) == v.t = "obj"
IsComputed(v) == v.t = "computed"
IsOutput(v) == v.t = "output"
IsSecret(v) == v.t = "secret"

(***************************************************************************)
(* Path elements: interface{} holding an int or a string.                  *)
(***************************************************************************)
IntEl(n) == [t |-> "int", v |-> n]
StrEl(s) == [t |-> "str", v |-> s]

(***************************************************************************)
(* Go strings and slices.                                                  *)
(***************************************************************************)
\* path[i], Go's 0-based indexing.
At(s, i) == s[i + 1]
\* path[i:]
From(s, i) == SubSeq(s, i + 1, Len(s))
\* path[i:j]
Slice(s, i, j) == SubSeq(s, i + 1, j)

\* string(bytes): the Go string built from a sequence of characters.
RECURSIVE ToStr(_)
ToStr(cs) == IF cs = <<>> THEN "" ELSE Head(cs) \o ToStr(Tail(cs))

\* strings.IndexRune(s, r): the first 0-based index of r in s, or -1.
IndexRune(s, r) ==
  IF \E i \in 1..Len(s) : s[i] = r
  THEN (CHOOSE i \in 1..Len(s) : s[i] = r /\ \A j \in 1..(i - 1) : s[j] # r) - 1
  ELSE -1

Digits == {"0", "1", "2", "3", "4", "5", "6", "7", "8", "9"}
DigitVal(c) ==
  CASE c = "0" -> 0 [] c = "1" -> 1 [] c = "2" -> 2 [] c = "3" -> 3
    [] c = "4" -> 4 [] c = "5" -> 5 [] c = "6" -> 6 [] c = "7" -> 7
    [] c = "8" -> 8 [] c = "9" -> 9

RECURSIVE DecVal(_, _)
DecVal(cs, acc) ==
  IF cs = <<>> THEN acc ELSE DecVal(Tail(cs), acc * 10 + DigitVal(Head(cs)))

\* strconv.ParseInt(s, 10, 0): an optional sign, then one or more decimal
\* digits; anything else is a syntax error.  (A range error needs more digits
\* than an int holds; the strings of the model are shorter than that.)
ParseInt(s) ==
  LET signed == s # <<>> /\ Head(s) \in {"+", "-"}
      body == IF signed THEN Tail(s) ELSE s
  IN IF body = <<>> \/ \E i \in 1..Len(body) : body[i] \notin Digits
     THEN [err |-> TRUE, n |-> 0]
     ELSE [err |-> FALSE,
           n |-> IF signed /\ Head(s) = "-" THEN 0 - DecVal(body, 0)
                 ELSE DecVal(body, 0)]

(***************************************************************************)
(* parseDiffPath.  The result is [status, err, elements]: status "ok"      *)
(* with the elements, status "error" with the error value's message and a  *)
(* nil path, or status "panic" when the Go runtime faults.                 *)
(***************************************************************************)
ErrQuote == "missing closing quote in property name"
ErrKeyBracket == "missing closing bracket in property access"
ErrIndexBracket == "missing closing bracket in array index"
ErrIndex == "invalid array index"

ParseOk(elements) == [status |-> "ok", err |-> "", elements |-> elements]
ParseErr(msg) == [status |-> "error", err |-> msg, elements |-> <<>>]
ParsePanic == [status |-> "panic", err |-> "index out of range", elements |-> <<>>]

\* A slip in the key loop: the escape \" is not decoded, so the backslash is
\* copied and the quote after it closes the key.
RECURSIVE scanKeyMut(_, _, _)
scanKeyMut(path, i, propertyKey) ==
  IF i = Len(path) THEN [closed |-> FALSE, i |-> i, key |-> propertyKey]
  ELSE IF At(path, i) = "\"" THEN [closed |-> TRUE, i |-> i + 1, key |-> propertyKey]
  ELSE scanKeyMut(path, i + 1, propertyKey \o At(path, i))

\* The loop that scans a quoted key from index i on: the index after the
\* closing quote and the key, or closed = FALSE at the end of the input.
RECURSIVE scanKey(_, _, _)
scanKey(path, i, propertyKey) ==
  IF i = Len(path) THEN [closed |-> FALSE, i |-> i, key |-> propertyKey]
  ELSE IF At(path, i) = "\"" THEN [closed |-> TRUE, i |-> i + 1, key |-> propertyKey]
  ELSE IF At(path, i) = "\\" /\ i + 1 < Len(path) /\ At(path, i + 1) = "\""
       THEN scanKey(path, i + 2, propertyKey \o "\"")
  ELSE scanKey(path, i + 1, propertyKey \o At(path, i))

\* The loop that scans a bare property name: the first index at which the
\* input ends or a '.' or '[' stands.
RECURSIVE scanName(_, _)
scanName(path, i) ==
  IF i = Len(path) \/ At(path, i) = "." \/ At(path, i) = "["
  THEN i ELSE scanName(path, i + 1)

\* The guard of the read path[1] after a '[': Go faults when the index is
\* not below len(path).
secondInRange(path) == 1 < Len(path)

RECURSIVE parseLoop(_, _)
parseLoop(path, elements) ==
  IF Len(path) = 0 THEN ParseOk(elements)
  ELSE IF At(path, 0) = "." THEN parseLoop(From(path, 1), elements)
  ELSE IF At(path, 0) = "["
  THEN IF ~secondInRange(path) THEN ParsePanic
       ELSE IF At(path, 1) = "\""
       THEN LET k == scanKey(path, 2, "")
            IN IF ~k.closed THEN ParseErr(ErrQuote)
               ELSE IF k.i = Len(path) \/ At(path, k.i) # "]"
               THEN ParseErr(ErrKeyBracket)
               ELSE parseLoop(From(From(path, k.i), 1),
                              Append(elements, StrEl(k.key)))
       ELSE LET rbracket == IndexRune(path, "]")
            IN IF rbracket = -1 THEN ParseErr(ErrIndexBracket)
               ELSE LET index == ParseInt(Slice(path, 1, rbracket))
                    IN IF index.err THEN ParseErr(ErrIndex)
                       ELSE parseLoop(From(From(path, rbracket), 1),
                                      Append(elements, IntEl(index.n)))
  ELSE LET i == scanName(path, 0)
       IN parseLoop(From(path, i), Append(elements, StrEl(ToStr(Slice(path, 0, i)))))

parseDiffPath(path) == parseLoop(path, <<>>)

\* A slip in the lookup: a secret is opened and the key looked up in the
\* value it wraps.
getPropertyMut(key, v) ==
  LET w == IF IsSecret(v) THEN v.e ELSE v
  IN IF IsArray(w)
     THEN IF key.t # "int" THEN Null
          ELSE IF key.v < 0 \/ key.v >= Len(w.a) THEN Null
          ELSE w.a[key.v + 1]
     ELSE IF IsObject(w)
     THEN IF key.t # "str" THEN Null
          ELSE IF key.v \in DOMAIN w.m THEN w.m[key.v] ELSE Null
     ELSE IF IsComputed(w) \/ IsOutput(w) THEN w
     ELSE Null

(***************************************************************************)
(* getProperty: one step of descent.  An array's Go index i is element     *)
(* i+1 of the sequence; a key that an object's map does not hold reads as  *)
(* the zero PropertyValue.                                                 *)
(***************************************************************************)
getProperty(key, v) ==
  IF IsArray(v)
  THEN IF key.t # "int" THEN Null
       ELSE IF key.v < 0 \/ key.v >= Len(v.a) THEN Null
       ELSE v.a[key.v + 1]
  ELSE IF IsObject(v)
  THEN IF key.t # "str" THEN Null
       ELSE IF key.v \in DOMAIN v.m THEN v.m[key.v] ELSE Null
  ELSE IF IsComputed(v) \/ IsOutput(v) \/ IsSecret(v) THEN v
  ELSE Null

(***************************************************************************)
(* resource.ValueDiff, resource.ArrayDiff and resource.ObjectDiff.  Adds,  *)
(* Deletes, Sames and Updates are Go maps: functions with finite domains.  *)
(***************************************************************************)
NilPtr == [nil |-> TRUE]
ZeroValueDiff == [Old |-> Null, New |-> Null, Array |-> NilPtr, Object |-> NilPtr]
\* The freshly allocated ArrayDiff or ObjectDiff: four empty maps.
EmptyDiff == [Adds |-> <<>>, Deletes |-> <<>>, Sames |-> <<>>, Updates |-> <<>>]
ValueDiffOf(old, new) == [Old |-> old, New |-> new, Array |-> NilPtr, Object |-> NilPtr]

\* m[k] = v on a Go map, and the read m[k], which yields zero for a missing key.
MapPut(m, k, v) == (k :> v) @@ m
MapGet(m, k, zero) == IF k \in DOMAIN m THEN m[k] ELSE zero

DiffAdd == "DiffAdd"
DiffAddReplace == "DiffAddReplace"
DiffDelete == "DiffDelete"
DiffDeleteReplace == "DiffDeleteReplace"
DiffUpdate == "DiffUpdate"
DiffUpdateReplace == "DiffUpdateReplace"
DiffKinds == {DiffAdd, DiffAddReplace, DiffDelete, DiffDeleteReplace,
              DiffUpdate, DiffUpdateReplace}

(***************************************************************************)
(* addDiff.  The result is [ok, diff]: the parent as mutated, and ok =     *)
(* FALSE when contract.Require or contract.Failf faults.                   *)
(***************************************************************************)
\* The leaf switch on an ArrayDiff: the kind says what to record.
arrayLeaf(kind, d, element, old, new) ==
  CASE kind \in {DiffAdd, DiffAddReplace} ->
         [ok |-> TRUE, d |-> [d EXCEPT !.Adds = MapPut(@, element, new)]]
    [] kind \in {DiffDelete, DiffDeleteReplace} ->
         [ok |-> TRUE, d |-> [d EXCEPT !.Deletes = MapPut(@, element, old)]]
    [] kind \in {DiffUpdate, DiffUpdateReplace} ->
         [ok |-> TRUE, d |-> [d EXCEPT !.Updates = MapPut(@, element, ValueDiffOf(old, new))]]
    [] OTHER -> [ok |-> FALSE, d |-> d]

\* A slip in the leaf switch: AddReplace falls into the Update case.
objectLeafMut(kind, d, e, old, new) ==
  CASE kind \in {DiffAdd} ->
         [ok |-> TRUE, d |-> [d EXCEPT !.Adds = MapPut(@, e, new)]]
    [] kind \in {DiffDelete, DiffDeleteReplace} ->
         [ok |-> TRUE, d |-> [d EXCEPT !.Deletes = MapPut(@, e, old)]]
    [] kind \in {DiffUpdate, DiffUpdateReplace, DiffAddReplace} ->
         [ok |-> TRUE, d |-> [d EXCEPT !.Updates = MapPut(@, e, ValueDiffOf(old, new))]]
    [] OTHER -> [ok |-> FALSE, d |-> d]

\* The leaf switch on an ObjectDiff.
objectLeaf(kind, d, e, old, new) ==
  CASE kind \in {DiffAdd, DiffAddReplace} ->
         [ok |-> TRUE, d |-> [d EXCEPT !.Adds = MapPut(@, e, new)]]
    [] kind \in {DiffDelete, DiffDeleteReplace} ->
         [ok |-> TRUE, d |-> [d EXCEPT !.Deletes = MapPut(@, e, old)]]
    [] kind \in {DiffUpdate, DiffUpdateReplace} ->
         [ok |-> TRUE, d |-> [d EXCEPT !.Updates = MapPut(@, e, ValueDiffOf(old, new))]]
    [] OTHER -> [ok |-> FALSE, d |-> d]

\* A slip in the non-leaf switch: a value only the old tree holds is
\* descended into instead of being recorded as deleted.
arrayCaseMut(old, new) ==
  IF IsNull(old) /\ ~IsNull(new) THEN "add"
  ELSE "recurse"

\* The non-leaf switch of the int branch: which of its three cases applies.
arrayCase(old, new) ==
  IF IsNull(old) /\ ~IsNull(new) THEN "add"
  ELSE IF ~IsNull(old) /\ IsNull(new) THEN "delete"
  ELSE "recurse"

\* The non-leaf switch of the string branch.
objectCase(old, new) ==
  IF IsNull(old) /\ ~IsNull(new) THEN "add"
  ELSE IF ~IsNull(old) /\ IsNull(new) THEN "delete"
  ELSE "recurse"

RECURSIVE addDiff(_, _, _, _, _)
addDiff(path, kind, parent, oldParent, newParent) ==
  IF ~(Len(path) > 0) THEN [ok |-> FALSE, diff |-> parent]
  ELSE
  LET element == path[1]
      old == getProperty(element, oldParent)
      new == getProperty(element, newParent)
  IN
  IF element.t = "int"
  THEN LET arr == IF parent.Array = NilPtr THEN EmptyDiff ELSE parent.Array
       IN IF Len(path) = 1
          THEN LET r == arrayLeaf(kind, arr, element.v, old, new)
               IN [ok |-> r.ok, diff |-> [parent EXCEPT !.Array = r.d]]
          ELSE CASE arrayCase(old, new) = "add" ->
                      [ok |-> TRUE,
                       diff |-> [parent EXCEPT !.Array =
                                   [arr EXCEPT !.Adds = MapPut(@, element.v, new)]]]
                 [] arrayCase(old, new) = "delete" ->
                      [ok |-> TRUE,
                       diff |-> [parent EXCEPT !.Array =
                                   [arr EXCEPT !.Deletes = MapPut(@, element.v, old)]]]
                 [] OTHER ->
                      LET ed == MapGet(arr.Updates, element.v, ZeroValueDiff)
                          r == addDiff(Tail(path), kind, ed, old, new)
                      IN [ok |-> r.ok,
                          diff |-> [parent EXCEPT !.Array =
                                      [arr EXCEPT !.Updates = MapPut(@, element.v, r.diff)]]]
  ELSE IF element.t = "str"
  THEN LET obj == IF parent.Object = NilPtr THEN EmptyDiff ELSE parent.Object
           e == element.v
       IN IF Len(path) = 1
          THEN LET r == objectLeaf(kind, obj, e, old, new)
               IN [ok |-> r.ok, diff |-> [parent EXCEPT !.Object = r.d]]
          ELSE CASE objectCase(old, new) = "add" ->
                      [ok |-> TRUE,
                       diff |-> [parent EXCEPT !.Object =
                                   [obj EXCEPT !.Adds = MapPut(@, e, new)]]]
                 [] objectCase(old, new) = "delete" ->
                      [ok |-> TRUE,
                       diff |-> [parent EXCEPT !.Object =
                                   [obj EXCEPT !.Deletes = MapPut(@, e, old)]]]
                 [] OTHER ->
                      LET ed == MapGet(obj.Updates, e, ZeroValueDiff)
                          r == addDiff(Tail(path), kind, ed, old, new)
                      IN [ok |-> r.ok,
                          diff |-> [parent EXCEPT !.Object =
                                      [obj EXCEPT !.Updates = MapPut(@, e, r.diff)]]]
  ELSE [ok |-> FALSE, diff |-> parent]

(***************************************************************************)
(* The state.  translateDetailedDiff: the step's three property maps, the  *)
(* records of step.DetailedDiff ranged over so far (Go ranges over a map   *)
(* in an unspecified order), the accumulator diff, and the returned        *)
(* ObjectDiff.  The parser and the lookup are pure functions; each has     *)
(* variables for its input and its result.                                 *)
(***************************************************************************)
VARIABLES
  pc,          \* "loop", "done" (returned) or "fault" (the call faulted)
  oldOutputs,  \* step.Old.Outputs
  oldInputs,   \* step.Old.Inputs
  newInputs,   \* step.New.Inputs
  applied,     \* the records folded in so far, in the order of the range
  diff,        \* var diff resource.ValueDiff
  fault,       \* what faulted
  result,      \* the value returned: diff.Object
  input,       \* parser: the path string
  accessors,   \* parser: the accessors the path string was written from
  parsed,      \* parser: the result of parseDiffPath
  lkOld,       \* lookup: the old value a descent starts at
  lkNew,       \* lookup: the new value a descent starts at
  lkPath,      \* lookup: the path elements descended so far
  curOld,      \* lookup: the old value reached
  curNew,      \* lookup: the new value reached
  lkRec        \* lookup: the result of addDiff along lkPath

tvars == <<pc, oldOutputs, oldInputs, newInputs, applied, diff, fault, result>>
pvars == <<input, accessors, parsed>>
lvars == <<lkOld, lkNew, lkPath, curOld, curNew, lkRec>>
vars == <<tvars, pvars, lvars>>

\* The values of the variables a specification does not use.
Pending == [status |-> "pending", err |-> "", elements |-> <<>>]
NoAccessors == [given |-> FALSE, list |-> <<>>]
NoRec == [done |-> FALSE, ok |-> FALSE, diff |-> ZeroValueDiff]
TranslateIdle ==
  /\ pc = "off" /\ oldOutputs = <<>> /\ oldInputs = <<>> /\ newInputs = <<>>
  /\ applied = <<>> /\ diff = ZeroValueDiff /\ fault = "" /\ result = NilPtr
ParserIdle == input = <<>> /\ accessors = NoAccessors /\ parsed = Pending
LookupIdle ==
  /\ lkOld = Null /\ lkNew = Null /\ lkPath = <<>> /\ curOld = Null
  /\ curNew = Null /\ lkRec = NoRec

(***************************************************************************)
(* translateDetailedDiff.                                                  *)
(***************************************************************************)
NewObjectProperty(m) == Obj(m)

\* The path strings a record may carry.
PathA == <<"a">>
PathABC == <<"a", ".", "b", ".", "c">>
PathA0B == <<"a", "[", "0", "]", ".", "b">>
Path0 == <<"[", "0", "]">>
PathDot == <<".">>
PathOpen == <<"a", "[">>
PathPool == {PathA, PathABC, PathA0B, Path0, PathDot, PathOpen}

\* The property maps a step may carry.
MapEmpty == <<>>
MapC(n) == "a" :> Obj("b" :> Obj("c" :> Num(n)))
MapNoB == "a" :> Obj(<<>>)
MapArr(n) == "a" :> Arr(<<Obj("b" :> Num(n))>>)
MapArrEmpty == "a" :> Arr(<<>>)
MapSecret == "a" :> Secret(Obj("b" :> Obj("c" :> Num(7))))
MapComputed == "a" :> Obj("b" :> Computed(Obj(<<>>)))
MapOutput == "a" :> Arr(<<Output(Obj("b" :> Num(8)))>>)

\* <<Old.Outputs, Old.Inputs, New.Inputs>>
Steps ==
  { <<MapC(1), MapC(3), MapC(2)>>,
    <<MapArr(1), MapArrEmpty, MapArr(2)>>,
    <<MapC(1), MapArr(1), MapNoB>>,
    <<MapC(1), MapEmpty, MapEmpty>>,
    <<MapEmpty, MapNoB, MapC(2)>>,
    <<MapSecret, MapComputed, MapOutput>> }

Init ==
  /\ pc = "loop"
  /\ \E st \in Steps :
       /\ oldOutputs = st[1] /\ oldInputs = st[2] /\ newInputs = st[3]
  /\ applied = <<>>
  /\ diff = ZeroValueDiff
  /\ fault = ""
  /\ result = NilPtr
  /\ ParserIdle
  /\ LookupIdle

\* The old root of a record: Outputs, or Inputs for an input diff.
Olds(inputDiff) ==
  IF inputDiff THEN NewObjectProperty(oldInputs) ELSE NewObjectProperty(oldOutputs)

\* The keys of step.DetailedDiff the range has not visited: a map holds a
\* path string once.
Unvisited(path) == \A i \in 1..Len(applied) : applied[i].path # path

\* One iteration of the range whose path does not parse: contract.Assert
\* (err == nil) faults, or the parser itself faulted.
ParseFault(path) ==
  /\ pc = "loop" /\ Len(applied) < MaxRecords /\ Unvisited(path)
  /\ parseDiffPath(path).status # "ok"
  /\ pc' = "fault"
  /\ fault' = IF parseDiffPath(path).status = "panic"
              THEN "runtime error: index out of range"
              ELSE "assert: err == nil"
  /\ UNCHANGED <<oldOutputs, oldInputs, newInputs, applied, diff, result>>
  /\ UNCHANGED <<pvars, lvars>>

\* One iteration of the range in which addDiff faults.
AddFault(path, kind, inputDiff) ==
  /\ pc = "loop" /\ Len(applied) < MaxRecords /\ Unvisited(path)
  /\ parseDiffPath(path).status = "ok"
  /\ ~addDiff(parseDiffPath(path).elements, kind, diff, Olds(inputDiff),
              NewObjectProperty(newInputs)).ok
  /\ pc' = "fault"
  /\ fault' = "require: len(path) > 0"
  /\ UNCHANGED <<oldOutputs, oldInputs, newInputs, applied, diff, result>>
  /\ UNCHANGED <<pvars, lvars>>

\* One iteration of the range: parse the path, pick the old root, addDiff.
AddRecord(path, kind, inputDiff) ==
  /\ pc = "loop" /\ Len(applied) < MaxRecords /\ Unvisited(path)
  /\ parseDiffPath(path).status = "ok"
  /\ LET elements == parseDiffPath(path).elements
         r == addDiff(elements, kind, diff, Olds(inputDiff),
                      NewObjectProperty(newInputs))
     IN /\ r.ok
        /\ diff' = r.diff
        /\ applied' = Append(applied, [path |-> path, elements |-> elements,
                                       Kind |-> kind, InputDiff |-> inputDiff])
  /\ UNCHANGED <<pc, oldOutputs, oldInputs, newInputs, fault, result>>
  /\ UNCHANGED <<pvars, lvars>>

\* The range is over: return diff.Object.
Return ==
  /\ pc = "loop"
  /\ pc' = "done"
  /\ result' = diff.Object
  /\ UNCHANGED <<oldOutputs, oldInputs, newInputs, applied, diff, fault>>
  /\ UNCHANGED <<pvars, lvars>>

Next ==
  \/ \E path \in PathPool : ParseFault(path)
  \/ \E path \in PathPool, kind \in DiffKinds, inputDiff \in BOOLEAN :
       AddFault(path, kind, inputDiff)
  \/ \E path \in PathPool, kind \in DiffKinds, inputDiff \in BOOLEAN :
       AddRecord(path, kind, inputDiff)
  \/ Return

Spec == Init /\ [][Next]_vars

(***************************************************************************)
(* Reading a diff tree and the two property trees along a path.            *)
(***************************************************************************)
\* The record most recently folded in, its roots, and the accumulator as it
\* was before that record.
HasLast == pc \in {"loop", "done"} /\ Len(applied) > 0
Last == applied[Len(applied)]
LastOld == Olds(Last.InputDiff)
LastNew == NewObjectProperty(newInputs)

RECURSIVE translateFold(_, _)
translateFold(records, d) ==
  IF records = <<>> THEN d
  ELSE translateFold(Tail(records),
                     addDiff(Head(records).elements, Head(records).Kind, d,
                             Olds(Head(records).InputDiff),
                             NewObjectProperty(newInputs)).diff)

Before == translateFold(SubSeq(applied, 1, Len(applied) - 1), ZeroValueDiff)

\* The value reached from root by looking up the elements of prefix in turn.
RECURSIVE ValAt(_, _)
ValAt(root, prefix) ==
  IF prefix = <<>> THEN root
  ELSE ValAt(getProperty(Head(prefix), root), Tail(prefix))

\* The ArrayDiff (integer element) or ObjectDiff (string element) of a node,
\* and the same with a nil pointer read as four empty maps.
Side(node, element) == IF element.t = "int" THEN node.Array ELSE node.Object
Maps(node, element) ==
  IF Side(node, element) = NilPtr THEN EmptyDiff ELSE Side(node, element)

\* The Value Diff node reached from d through Updates along prefix; the zero
\* node when there is none.
RECURSIVE NodeAt(_, _)
NodeAt(d, prefix) ==
  IF prefix = <<>> THEN d
  ELSE NodeAt(MapGet(Maps(d, Head(prefix)).Updates, Head(prefix).v, ZeroValueDiff),
              Tail(prefix))

Prefix(path, n) == SubSeq(path, 1, n)

\* The first non-leaf level of path at which exactly one of the old and the
\* new value is null; Len(path) when there is none.
OneSided(path, oldRoot, newRoot, j) ==
  IsNull(ValAt(oldRoot, Prefix(path, j))) # IsNull(ValAt(newRoot, Prefix(path, j)))
StopLevel(path, oldRoot, newRoot) ==
  IF \E j \in 1..(Len(path) - 1) : OneSided(path, oldRoot, newRoot, j)
  THEN CHOOSE j \in 1..(Len(path) - 1) :
         /\ OneSided(path, oldRoot, newRoot, j)
         /\ \A i \in 1..(j - 1) : ~OneSided(path, oldRoot, newRoot, i)
  ELSE Len(path)

(***************************************************************************)
(* Claims about addDiff and translateDetailedDiff, under Spec.             *)
(***************************************************************************)
\* The injective maps of 1..n onto itself, and a sequence read through one.
Perms(n) == {f \in [1..n -> 1..n] : \A i, j \in 1..n : f[i] = f[j] => i = j}
Reorder(seq, f) == [i \in 1..Len(seq) |-> seq[f[i]]]

\* C1: the Object Diff translate returns is the same whatever order the
\* records are folded into the accumulator: folding the records of the call
\* in any other order on a fresh accumulator yields the returned Object Diff.
C1_OrderIndependent ==
  pc = "done" =>
    \A f \in Perms(Len(applied)) :
      translateFold(Reorder(applied, f), ZeroValueDiff).Object = result

\* No node of the tree under d has both its Array and its Object set.
RECURSIVE Exclusive(_)
Exclusive(d) ==
  /\ ~(d.Array # NilPtr /\ d.Object # NilPtr)
  /\ d.Array # NilPtr =>
       \A k \in DOMAIN d.Array.Updates : Exclusive(d.Array.Updates[k])
  /\ d.Object # NilPtr =>
       \A k \in DOMAIN d.Object.Updates : Exclusive(d.Object.Updates[k])

\* C2: after any sequence of addDiff calls on a fresh root accumulator, no
\* Value Diff node of the tree, the root included, has both its Array Diff
\* and its Object Diff populated.
C2_ArrayObjectExclusive == Exclusive(diff)

\* C3: at a non-leaf element, at whatever level of the recursion and for an
\* integer as for a string element, a value null in the old tree and non-null
\* in the new one is recorded in Adds[element], a value non-null in the old
\* tree and null in the new one in Deletes[element]; nothing else of that
\* diff changes (no Updates entry, no recursion), and the result is the same
\* for all six kinds.
C3_NonLeafAddDelete ==
  HasLast =>
    LET path == Last.elements
        j == StopLevel(path, LastOld, LastNew)
    IN j < Len(path) =>
         LET e == path[j]
             old == ValAt(LastOld, Prefix(path, j))
             new == ValAt(LastNew, Prefix(path, j))
             was == Maps(NodeAt(Before, Prefix(path, j - 1)), e)
             now == Side(NodeAt(diff, Prefix(path, j - 1)), e)
         IN /\ IsNull(old) => now = [was EXCEPT !.Adds = MapPut(@, e.v, new)]
            /\ IsNull(new) => now = [was EXCEPT !.Deletes = MapPut(@, e.v, old)]
            /\ \A kind \in DiffKinds :
                 addDiff(path, kind, Before, LastOld, LastNew).diff = diff

\* C3 witness: a record with an Update kind whose path stopped at its second
\* element, an integer, where the old tree has a value and the new one none.
C3_Witness ==
  /\ HasLast
  /\ Len(applied) = 2
  /\ Len(Last.elements) = 3
  /\ Last.Kind = DiffUpdateReplace
  /\ StopLevel(Last.elements, LastOld, LastNew) = 2
  /\ Last.elements[2].t = "int"
  /\ IsNull(ValAt(LastNew, Prefix(Last.elements, 2)))
  /\ 0 \in DOMAIN NodeAt(diff, Prefix(Last.elements, 1)).Array.Deletes

\* The other kind of a pair: Add and AddReplace, and so on.
Twin(kind) ==
  CASE kind = DiffAdd -> DiffAddReplace
    [] kind = DiffAddReplace -> DiffAdd
    [] kind = DiffDelete -> DiffDeleteReplace
    [] kind = DiffDeleteReplace -> DiffDelete
    [] kind = DiffUpdate -> DiffUpdateReplace
    [] kind = DiffUpdateReplace -> DiffUpdate

\* C4: at the last element of a path the kind alone classifies: Add and
\* AddReplace set Adds[element] to the new value, Delete and DeleteReplace
\* set Deletes[element] to the old value, Update and UpdateReplace set
\* Updates[element] to the pair {old, new}; only that one mapping changes,
\* and a kind and its Replace variant produce identical trees.
C4_LeafByKind ==
  HasLast =>
    LET path == Last.elements
        n == Len(path)
    IN StopLevel(path, LastOld, LastNew) = n =>
         LET e == path[n]
             old == ValAt(LastOld, path)
             new == ValAt(LastNew, path)
             was == Maps(NodeAt(Before, Prefix(path, n - 1)), e)
             now == Side(NodeAt(diff, Prefix(path, n - 1)), e)
         IN /\ Last.Kind \in {DiffAdd, DiffAddReplace} =>
                 now = [was EXCEPT !.Adds = MapPut(@, e.v, new)]
            /\ Last.Kind \in {DiffDelete, DiffDeleteReplace} =>
                 now = [was EXCEPT !.Deletes = MapPut(@, e.v, old)]
            /\ Last.Kind \in {DiffUpdate, DiffUpdateReplace} =>
                 now = [was EXCEPT !.Updates = MapPut(@, e.v, ValueDiffOf(old, new))]
            /\ addDiff(path, Twin(Last.Kind), Before, LastOld, LastNew).diff = diff

\* C4 witness: an AddReplace record whose one-element path names a property
\* present in both trees, folded into an accumulator that holds a record.
C4_Witness ==
  /\ HasLast
  /\ Len(applied) = 2
  /\ Len(Last.elements) = 1
  /\ Last.Kind = DiffAddReplace
  /\ ~IsNull(ValAt(LastOld, Last.elements))
  /\ ~IsNull(ValAt(LastNew, Last.elements))
  /\ Last.elements[1].v \in DOMAIN diff.Object.Adds

\* What w holds, n holds: the keys of Adds, Deletes and Updates.
Kept(w, n) ==
  /\ n # NilPtr
  /\ DOMAIN w.Adds \subseteq DOMAIN n.Adds
  /\ DOMAIN w.Deletes \subseteq DOMAIN n.Deletes
  /\ DOMAIN w.Updates \subseteq DOMAIN n.Updates

\* C5: an Array Diff or Object Diff allocated at a position of the tree by an
\* earlier record is still at that position, with the entries recorded so
\* far, after every later record is folded in.
C5_NodesPersist ==
  HasLast =>
    \A i \in 1..(Len(applied) - 1) :
      \A n \in 0..Len(applied[i].elements) :
        LET was == NodeAt(Before, Prefix(applied[i].elements, n))
            now == NodeAt(diff, Prefix(applied[i].elements, n))
        IN /\ was.Array # NilPtr => Kept(was.Array, now.Array)
           /\ was.Object # NilPtr => Kept(was.Object, now.Object)

\* The first non-leaf level of path at which the old or the new value is
\* null; Len(path) when there is none.
Absent(path, oldRoot, newRoot, j) ==
  IsNull(ValAt(oldRoot, Prefix(path, j))) \/ IsNull(ValAt(newRoot, Prefix(path, j)))
AbsentLevel(path, oldRoot, newRoot) ==
  IF \E j \in 1..(Len(path) - 1) : Absent(path, oldRoot, newRoot, j)
  THEN CHOOSE j \in 1..(Len(path) - 1) :
         /\ Absent(path, oldRoot, newRoot, j)
         /\ \A i \in 1..(j - 1) : ~Absent(path, oldRoot, newRoot, i)
  ELSE Len(path)

\* C10: at a non-leaf element addDiff recurses only when the element is
\* non-null in both parents; when it is null in one parent or the other the
\* change is recorded as an Add or a Delete at that element and no Updates
\* entry is created.
C10_RecurseOnlyWhenBoth ==
  HasLast =>
    LET path == Last.elements
        j == AbsentLevel(path, LastOld, LastNew)
    IN j < Len(path) =>
         LET e == path[j]
             old == ValAt(LastOld, Prefix(path, j))
             new == ValAt(LastNew, Prefix(path, j))
             was == Maps(NodeAt(Before, Prefix(path, j - 1)), e)
             now == Side(NodeAt(diff, Prefix(path, j - 1)), e)
         IN \/ now = [was EXCEPT !.Adds = MapPut(@, e.v, new)]
            \/ now = [was EXCEPT !.Deletes = MapPut(@, e.v, old)]

(***************************************************************************)
(* The parser on its own: SpecParse draws a path string, either any string *)
(* over RawAlphabet up to MaxLen characters or the text of a list of       *)
(* accessors, and parses it.                                               *)
(***************************************************************************)
RawAlphabet == {".", "[", "]", "\"", "\\", "a", "1", "-"}
RawStrings == UNION {[1..n -> RawAlphabet] : n \in 0..MaxLen}

\* An accessor: a bare name (written with or without a leading '.'), a
\* bracketed integer, or a bracketed quoted key.  The text of a key is a
\* list of tokens: a character other than '"', or Esc, the two characters \".
Esc == "\\\""
NameAcc(dot, name) == [kind |-> "name", dot |-> dot, name |-> name]
IndexAcc(n) == [kind |-> "index", n |-> n]
KeyAcc(toks) == [kind |-> "key", toks |-> toks]

\* The largest index written in a generated path string.
MaxIndex == 11

NamePool == {<<"a">>, <<"a", "b">>}
KeyPool ==
  { <<>>, <<"a">>, <<Esc>>, <<"a", Esc, "b">>, <<"\\", "a">>, <<"a", "\\">>,
    <<"]">>, <<"[", ".">>, <<"\\", Esc>>, <<"1">> }
AccessorPool ==
  {NameAcc(dot, name) : dot \in BOOLEAN, name \in NamePool}
    \cup {IndexAcc(n) : n \in (0 - 1)..MaxIndex}
    \cup {KeyAcc(toks) : toks \in KeyPool}

\* A bare name that follows a bare name is set off by its '.'.
Separated(list) ==
  \A i \in 2..Len(list) :
    (list[i].kind = "name" /\ ~list[i].dot) => list[i - 1].kind # "name"
AccessorLists ==
  {list \in UNION {[1..n -> AccessorPool] : n \in 0..MaxAccessors} : Separated(list)}

\* foo[0]["bar"].baz
ExampleMixed ==
  << NameAcc(FALSE, <<"f", "o", "o">>), IndexAcc(0), KeyAcc(<<"b", "a", "r">>),
     NameAcc(TRUE, <<"b", "a", "z">>) >>

\* The decimal text of an integer.
DigitChar(d) == <<"0", "1", "2", "3", "4", "5", "6", "7", "8", "9">>[d + 1]
RECURSIVE Decimal(_)
Decimal(n) ==
  IF n < 0 THEN <<"-">> \o Decimal(0 - n)
  ELSE IF n < 10 THEN <<DigitChar(n)>>
  ELSE Decimal(n \div 10) \o <<DigitChar(n % 10)>>

\* The text of a key's tokens, and the key they stand for.
RECURSIVE KeyText(_)
KeyText(toks) ==
  IF toks = <<>> THEN <<>>
  ELSE (IF Head(toks) = Esc THEN <<"\\", "\"">> ELSE <<Head(toks)>>)
         \o KeyText(Tail(toks))
RECURSIVE KeyOf(_)
KeyOf(toks) ==
  IF toks = <<>> THEN ""
  ELSE (IF Head(toks) = Esc THEN "\"" ELSE Head(toks)) \o KeyOf(Tail(toks))

\* The text of an accessor and the element it stands for.
AccText(acc) ==
  CASE acc.kind = "name" -> (IF acc.dot THEN <<".">> ELSE <<>>) \o acc.name
    [] acc.kind = "index" -> <<"[">> \o Decimal(acc.n) \o <<"]">>
    [] acc.kind = "key" -> <<"[", "\"">> \o KeyText(acc.toks) \o <<"\"", "]">>
AccElement(acc) ==
  CASE acc.kind = "name" -> StrEl(ToStr(acc.name))
    [] acc.kind = "index" -> IntEl(acc.n)
    [] acc.kind = "key" -> StrEl(KeyOf(acc.toks))
RECURSIVE PathText(_)
PathText(list) ==
  IF list = <<>> THEN <<>> ELSE AccText(Head(list)) \o PathText(Tail(list))
Expected(list) == [i \in 1..Len(list) |-> AccElement(list[i])]

InitParse ==
  /\ TranslateIdle
  /\ LookupIdle
  /\ parsed = Pending
  /\ \/ accessors = NoAccessors /\ input \in RawStrings
     \/ \E list \in AccessorLists \cup {ExampleMixed} :
          accessors = [given |-> TRUE, list |-> list] /\ input = PathText(list)

\* The call parseDiffPath(input).
Parse ==
  /\ parsed = Pending
  /\ parsed' = parseDiffPath(input)
  /\ UNCHANGED <<input, accessors>>
  /\ UNCHANGED <<tvars, lvars>>

NextParse == Parse

SpecParse == InitParse /\ [][NextParse]_vars

(***************************************************************************)
(* Claims about parseDiffPath, under SpecParse.                            *)
(***************************************************************************)
\* C7 as stated: every path string written from a list of accessors parses,
\* without error, to exactly the elements of the accessors in order: the
\* name, the integer, or the key with each \" decoded to " and every other
\* character copied verbatim.
C7_EveryAccessorList ==
  (parsed # Pending /\ accessors.given) =>
    parsed = ParseOk(Expected(accessors.list))

\* No quoted key of the list has a text that ends in a backslash.
NoTrailingBackslash(list) ==
  \A i \in 1..Len(list) :
    (list[i].kind = "key" /\ list[i].toks # <<>>) =>
      list[i].toks[Len(list[i].toks)] # "\\"

\* C7, amended: every path string written from a list of accessors in which
\* no quoted key's text ends in a backslash parses, without error, to exactly
\* the elements of the accessors in order.
C7_AccessorsParse ==
  (parsed # Pending /\ accessors.given /\ NoTrailingBackslash(accessors.list)) =>
    parsed = ParseOk(Expected(accessors.list))

\* C7 witness: foo[0]["bar"].baz has been parsed to its four elements.
C7_Witness ==
  /\ accessors = [given |-> TRUE, list |-> ExampleMixed]
  /\ parsed.status = "ok"
  /\ parsed.elements = <<StrEl("foo"), IntEl(0), StrEl("bar"), StrEl("baz")>>

\* The '[' at position k of s starts an accessor (what precedes it is a
\* complete path), is not followed by '"', and no ']' stands after it.
OpenIndex(s, k) ==
  /\ s[k] = "["
  /\ parseDiffPath(SubSeq(s, 1, k - 1)).status = "ok"
  /\ (k = Len(s) \/ s[k + 1] # "\"")
  /\ \A j \in (k + 1)..Len(s) : s[j] # "]"

\* C8: a path string in which a '[' accessor does not start with '"' and no
\* ']' stands after that '[' yields the Missing Closing Bracket error, as an
\* error value, whatever follows the '['.
C8_MissingBracketIsError ==
  (parsed # Pending /\ \E k \in 1..Len(input) : OpenIndex(input, k)) =>
    parsed = ParseErr(ErrIndexBracket)

\* C9: a successful parse of a non-empty path string has at least one
\* element, so the addDiff the driver then calls meets len(path) > 0.
C9_ParsedPathNonEmpty ==
  (parsed.status = "ok" /\ input # <<>>) =>
    /\ Len(parsed.elements) >= 1
    /\ addDiff(parsed.elements, DiffUpdate, ZeroValueDiff, NewObjectProperty(<<>>),
               NewObjectProperty(<<>>)).ok

(***************************************************************************)
(* The lookup on its own: SpecLookup draws an old and a new value, descends *)
(* both along a path one getProperty at a time (addDiff's line "old, new   *)
(* := getProperty(...)" at each level), and calls addDiff along that path. *)
(***************************************************************************)
ValuePool ==
  { Null, Num(1), Obj("a" :> Num(1)), Arr(<<Num(1)>>),
    Secret(Obj("a" :> Num(2))), Computed(Obj(<<>>)), Output(Arr(<<Num(3)>>)),
    Obj("a" :> Secret(Arr(<<Num(4)>>))) }
ElemPool ==
  { StrEl("a"), StrEl("b"), IntEl(0), IntEl(1), IntEl(0 - 1), IntEl(2147483647) }

IsOpaque(v) == IsComputed(v) \/ IsOutput(v) \/ IsSecret(v)

InitLookup ==
  /\ TranslateIdle
  /\ ParserIdle
  /\ lkOld \in ValuePool
  /\ lkNew \in ValuePool
  /\ lkPath = <<>>
  /\ curOld = lkOld
  /\ curNew = lkNew
  /\ lkRec = NoRec

\* One level of descent: old, new := getProperty(element, old), getProperty(element, new).
Descend(element) ==
  /\ ~lkRec.done
  /\ Len(lkPath) < MaxDepth
  /\ lkPath' = Append(lkPath, element)
  /\ curOld' = getProperty(element, curOld)
  /\ curNew' = getProperty(element, curNew)
  /\ UNCHANGED <<lkOld, lkNew, lkRec>>
  /\ UNCHANGED <<tvars, pvars>>

\* The call addDiff(lkPath, kind, &fresh, lkOld, lkNew).
Record(kind) ==
  /\ ~lkRec.done
  /\ Len(lkPath) > 0
  /\ LET r == addDiff(lkPath, kind, ZeroValueDiff, lkOld, lkNew)
     IN lkRec' = [done |-> TRUE, ok |-> r.ok, diff |-> r.diff]
  /\ UNCHANGED <<lkOld, lkNew, lkPath, curOld, curNew>>
  /\ UNCHANGED <<tvars, pvars>>

NextLookup ==
  \/ \E element \in ElemPool : Descend(element)
  \/ \E kind \in DiffKinds : Record(kind)

SpecLookup == InitLookup /\ [][NextLookup]_vars

\* The values met when v is taken apart without opening an opaque value.
RECURSIVE Visible(_)
Visible(v) ==
  {v} \cup
    (IF IsArray(v) THEN UNION {Visible(v.a[i]) : i \in 1..Len(v.a)}
     ELSE IF IsObject(v) THEN UNION {Visible(v.m[k]) : k \in DOMAIN v.m}
     ELSE {})

\* The values a diff tree records.
RECURSIVE Recorded(_)
Held(d) ==
  IF d = NilPtr THEN {}
  ELSE {d.Adds[k] : k \in DOMAIN d.Adds} \cup {d.Deletes[k] : k \in DOMAIN d.Deletes}
         \cup UNION {Recorded(d.Updates[k]) : k \in DOMAIN d.Updates}
Recorded(d) == {d.Old, d.New} \cup Held(d.Array) \cup Held(d.Object)

\* C6: getProperty returns an opaque value itself for every element, so once
\* a descent has reached an opaque value every later step yields that same
\* value; the addDiff along the path does not fault, and every value it
\* records is null or a value met without opening an opaque value.
C6_OpaquePassthrough ==
  /\ \A i \in 0..Len(lkPath) :
       /\ IsOpaque(ValAt(lkOld, Prefix(lkPath, i))) =>
            curOld = ValAt(lkOld, Prefix(lkPath, i))
       /\ IsOpaque(ValAt(lkNew, Prefix(lkPath, i))) =>
            curNew = ValAt(lkNew, Prefix(lkPath, i))
  /\ lkRec.done =>
       /\ lkRec.ok
       /\ Recorded(lkRec.diff) \subseteq ({Null} \cup Visible(lkOld) \cup Visible(lkNew))

\* C6 witness: a descent of two steps from a secret and an output value, the
\* first by a negative index, after which addDiff recorded the secret itself.
C6_Witness ==
  /\ lkRec.done
  /\ IsSecret(lkOld)
  /\ IsOutput(lkNew)
  /\ Len(lkPath) = 2
  /\ lkPath[1] = IntEl(0 - 1)
  /\ curOld = lkOld
  /\ lkOld \in Recorded(lkRec.diff)

====
